---- MODULE Spec2Model ----
(***************************************************************************)
(* InteractableCanvas: the viewport transform (zoom / pan), the mapping of *)
(* pointer offsets to canvas coordinates, the bounds enforcement, the      *)
(* drag-versus-pan interaction of the component's event listeners, and the *)
(* render pass (clear, grid, drawables).                                   *)
(*                                                                         *)
(* JavaScript Numbers are modelled as exact rationals <<n, d>> (d > 0, in  *)
(* lowest terms): the arithmetic of the handlers is carried out exactly as *)
(* the code writes it, operation by operation, without IEEE-754 rounding.  *)
(* document.body.style.cursor and the console output are left out: no      *)
(* handler reads them.                                                     *)
(***************************************************************************)
EXTENDS Integers, Sequences, FiniteSets, TLC

(***************************************************************************)
(* Exact rational arithmetic.                                              *)
(***************************************************************************)
Abs(n) ==
    IF n < 0 THEN -n ELSE n

RECURSIVE GCD(_, _)
GCD(m, n) ==
    IF n = 0 THEN m ELSE GCD(n, m % n)

Rat(n, d) ==
    LET s == IF d < 0 THEN -1 ELSE 1
        g == GCD(Abs(n), Abs(d))
    IN  <<(s * n) \div g, (s * d) \div g>>

Num(n) ==
    <<n, 1>>

RNeg(p) ==
    <<-p[1], p[2]>>

RAdd(p, q) ==
    LET g == GCD(p[2], q[2])
    IN  Rat(p[1] * (q[2] \div g) + q[1] * (p[2] \div g), (p[2] \div g) * q[2])

RSub(p, q) ==
    RAdd(p, RNeg(q))

RMul(p, q) ==
    LET g1 == GCD(Abs(p[1]), q[2])
        g2 == GCD(Abs(q[1]), p[2])
    IN  IF p[1] = 0 \/ q[1] = 0
        THEN <<0, 1>>
        ELSE <<(p[1] \div g1) * (q[1] \div g2), (p[2] \div g2) * (q[2] \div g1)>>

RInv(p) ==
    IF p[1] < 0 THEN <<-p[2], -p[1]>> ELSE <<p[2], p[1]>>

RDiv(p, q) ==
    RMul(p, RInv(q))

RLt(p, q) ==
    LET g == GCD(p[2], q[2])
    IN  p[1] * (q[2] \div g) < q[1] * (p[2] \div g)

RGt(p, q) ==
    RLt(q, p)

RLe(p, q) ==
    ~RLt(q, p)

RMax(p, q) ==
    IF RLt(p, q) THEN q ELSE p

\* Math.floor
RFloor(p) ==
    p[1] \div p[2]

Zero ==
    Num(0)

One ==
    Num(1)

(***************************************************************************)
(* Bounds of the model.                                                    *)
(***************************************************************************)
\* the canvas's bounding rect, in css pixels
RectWidth == 2
RectHeight == 3
\* wheel events that zoom, mousemove events that drag or pan and context-menu
\* events that make the host append a drawable, per run
MaxGestures == 2
\* drawables in a list whose render pass is examined on its own
MaxDrawables == 3

\* window.devicePixelRatio of the devices considered
DevicePixelRatios ==
    {Num(1), Num(3)}

\* the maxZoom prop: absent, or a number
MaxZoomProps ==
    {<<>>, <<Zero>>, <<Rat(1, 2)>>, <<Num(2)>>}

\* e.offsetX, e.offsetY of the pointer events considered (inside the canvas)
OffsetPoints ==
    {<<0, 0>>, <<1, 1>>, <<RectWidth, RectHeight>>}

\* e.deltaY of the wheel events considered
DeltaYs ==
    {-1, 1}

\* e.button of the mousedown events considered (0 is the primary button)
Buttons ==
    {0, 2}

\* the gridOptions prop: absent, or an object with draw and, possibly, cellSize
GridOptionsProps ==
    {<<>>,
     <<[draw |-> FALSE, cellSize |-> <<>>]>>,
     <<[draw |-> TRUE, cellSize |-> <<>>]>>,
     <<[draw |-> TRUE, cellSize |-> <<Num(1)>>]>>,
     <<[draw |-> TRUE, cellSize |-> <<Rat(3, 2)>>]>>}

\* gridOptions={{ draw: true }}, as both hosts pass it
HostGridOptions ==
    <<[draw |-> TRUE, cellSize |-> <<>>]>>

(***************************************************************************)
(* The host's drawables.  A drawable is an object with an identity and the *)
(* optional capabilities draw, touches and move.  The objects the host of  *)
(* this model supplies are squares of half-side 1/2 centred on objPos[id]: *)
(* touches(x, y) tests the square, move(pt) re-centres it.                 *)
(***************************************************************************)
Node == "node"          \* draw, touches, move
Label == "label"        \* draw, touches
Circle == "circle"      \* draw only (the circles of App.js)
Added == "added"        \* draw only, appended by the host's onContextMenu
Plain == "plain"        \* an object without draw, touches or move

ObjectIds ==
    {Node, Label, Circle, Added}

hasDraw(id) ==
    id \in {Node, Label, Circle, Added}

hasTouches(id) ==
    id \in {Node, Label}

hasMove(id) ==
    id \in {Node}

\* the drawables prop: absent (not an array), or an array of objects
NoArray ==
    [array |-> FALSE, items |-> <<>>]

Array(items) ==
    [array |-> TRUE, items |-> items]

InitialDrawables ==
    {NoArray, Array(<<Label, Node, Circle>>)}

Point(x, y) ==
    [x |-> x, y |-> y]

\* the node lies under offset (1, 1) of the freshly mounted canvas, the label
\* under its bottom-right corner
InitialObjPos ==
    [id \in ObjectIds |->
        IF id = Node THEN Point(Num(1), Num(1))
        ELSE Point(Num(RectWidth), Num(RectHeight))]

HalfSide ==
    <<1, 2>>

\* typeof d.touches === 'function' && d.touches(pt.x, pt.y)
touches(id, pos, x, y) ==
    /\ hasTouches(id)
    /\ RLe(RSub(pos[id].x, HalfSide), x) /\ RLe(x, RAdd(pos[id].x, HalfSide))
    /\ RLe(RSub(pos[id].y, HalfSide), y) /\ RLe(y, RAdd(pos[id].y, HalfSide))

(***************************************************************************)
(* The 2D context's transform (a, b, c, d, e, f) and the context methods   *)
(* the component calls on it.                                              *)
(***************************************************************************)
Identity ==
    [a |-> One, b |-> Zero, c |-> Zero, d |-> One, e |-> Zero, f |-> Zero]

\* ctx.translate(tx, ty): transform := transform * translation
ctxTranslate(t, tx, ty) ==
    [t EXCEPT !.e = RAdd(t.e, RAdd(RMul(t.a, tx), RMul(t.c, ty))),
              !.f = RAdd(t.f, RAdd(RMul(t.b, tx), RMul(t.d, ty)))]

\* ctx.scale(sx, sy): transform := transform * scaling
ctxScale(t, sx, sy) ==
    [t EXCEPT !.a = RMul(t.a, sx), !.b = RMul(t.b, sx),
              !.c = RMul(t.c, sy), !.d = RMul(t.d, sy)]

\* const DEFAULT_SCALING = Math.max(2, window.devicePixelRatio)
DefaultScaling(devicePixelRatio) ==
    RMax(Num(2), devicePixelRatio)

\* scaleCanvas: setting canvas.width resets the context's transform, then
\* ctx.scale(DEFAULT_SCALING, DEFAULT_SCALING)
scaleCanvas(D) ==
    ctxScale(Identity, D, D)

\* canvas.width, canvas.height as scaleCanvas sets them
canvasWidth(r, D) ==
    RFloor(RMul(Num(r.width), D))

canvasHeight(r, D) ==
    RFloor(RMul(Num(r.height), D))

\* getTransformedPoint without its two "*= DEFAULT_SCALING"
getTransformedPoint_NoDensity(t, D, x, y) ==
    LET inverseZoom == RDiv(One, t.a)
        x1 == RMul(inverseZoom, Num(x))
        x3 == RSub(x1, RMul(inverseZoom, t.e))
        y1 == RMul(inverseZoom, Num(y))
        y3 == RSub(y1, RMul(inverseZoom, t.f))
    IN  Point(x3, y3)

getTransformedPoint(t, D, x, y) ==
    LET inverseZoom == RDiv(One, t.a)
        x1 == RMul(inverseZoom, Num(x))
        x2 == RMul(x1, D)
        x3 == RSub(x2, RMul(inverseZoom, t.e))
        y1 == RMul(inverseZoom, Num(y))
        y2 == RMul(y1, D)
        y3 == RSub(y2, RMul(inverseZoom, t.f))
    IN  Point(x3, y3)

maxHorizontalTranslation(t, r, D) ==
    LET scaledWidth == RMul(Num(r.width), t.a)
    IN  RMul(RNeg(RSub(scaledWidth, Num(r.width))), D)

maxVerticalTranslation(t, r, D) ==
    LET scaledHeight == RMul(Num(r.height), t.d)
    IN  RMul(RNeg(RSub(scaledHeight, Num(r.height))), D)

\* enforceBounds without its two "> 0" translation checks
enforceBounds_NoUpperClamp(t, r, D) ==
    LET t1 == IF RLt(t.a, One) THEN [t EXCEPT !.a = One] ELSE t
        t2 == IF RLt(t1.d, One) THEN [t1 EXCEPT !.d = One] ELSE t1
        maxH == maxHorizontalTranslation(t2, r, D)
        maxV == maxVerticalTranslation(t2, r, D)
        t4 == IF RLt(t2.e, maxH) THEN [t2 EXCEPT !.e = maxH] ELSE t2
        t6 == IF RLt(t4.f, maxV) THEN [t4 EXCEPT !.f = maxV] ELSE t4
    IN  t6

\* enforceBounds without the minimum check on transform.d
enforceBounds_ScaleXOnly(t, r, D) ==
    LET t2 == IF RLt(t.a, One) THEN [t EXCEPT !.a = One] ELSE t
        maxH == maxHorizontalTranslation(t2, r, D)
        maxV == maxVerticalTranslation(t2, r, D)
        t3 == IF RGt(t2.e, Zero) THEN [t2 EXCEPT !.e = Zero] ELSE t2
        t4 == IF RLt(t3.e, maxH) THEN [t3 EXCEPT !.e = maxH] ELSE t3
        t5 == IF RGt(t4.f, Zero) THEN [t4 EXCEPT !.f = Zero] ELSE t4
        t6 == IF RLt(t5.f, maxV) THEN [t5 EXCEPT !.f = maxV] ELSE t5
    IN  t6

\* enforceBounds with scaledWidth, scaledHeight computed before the scale
\* is clamped
enforceBounds_StaleScale(t, r, D) ==
    LET maxH == maxHorizontalTranslation(t, r, D)
        maxV == maxVerticalTranslation(t, r, D)
        t1 == IF RLt(t.a, One) THEN [t EXCEPT !.a = One] ELSE t
        t2 == IF RLt(t1.d, One) THEN [t1 EXCEPT !.d = One] ELSE t1
        t3 == IF RGt(t2.e, Zero) THEN [t2 EXCEPT !.e = Zero] ELSE t2
        t4 == IF RLt(t3.e, maxH) THEN [t3 EXCEPT !.e = maxH] ELSE t3
        t5 == IF RGt(t4.f, Zero) THEN [t4 EXCEPT !.f = Zero] ELSE t4
        t6 == IF RLt(t5.f, maxV) THEN [t5 EXCEPT !.f = maxV] ELSE t5
    IN  t6

enforceBounds(t, r, D) ==
    LET t1 == IF RLt(t.a, One) THEN [t EXCEPT !.a = One] ELSE t
        t2 == IF RLt(t1.d, One) THEN [t1 EXCEPT !.d = One] ELSE t1
        maxH == maxHorizontalTranslation(t2, r, D)
        maxV == maxVerticalTranslation(t2, r, D)
        t3 == IF RGt(t2.e, Zero) THEN [t2 EXCEPT !.e = Zero] ELSE t2
        t4 == IF RLt(t3.e, maxH) THEN [t3 EXCEPT !.e = maxH] ELSE t3
        t5 == IF RGt(t4.f, Zero) THEN [t4 EXCEPT !.f = Zero] ELSE t4
        t6 == IF RLt(t5.f, maxV) THEN [t5 EXCEPT !.f = maxV] ELSE t5
    IN  t6

\* const maxScaleValue = maxZoom ? maxZoom : 5
DefaultMaxZoom ==
    Num(5)

maxScaleValue(mz) ==
    IF mz # <<>> /\ mz[1] # Zero THEN mz[1] ELSE DefaultMaxZoom

ZoomIn ==
    <<51, 50>>

ZoomOut ==
    <<49, 50>>

\* a find that searches from the end of the list
RECURSIVE find_Last(_, _, _)
find_Last(items, pos, pt) ==
    IF items = <<>> THEN <<>>
    ELSE IF find_Last(Tail(items), pos, pt) # <<>> THEN find_Last(Tail(items), pos, pt)
    ELSE IF touches(Head(items), pos, pt.x, pt.y) THEN <<Head(items)>>
    ELSE <<>>

\* drawables.find(d => typeof d.touches === 'function' && d.touches(pt.x, pt.y)):
\* the first touching drawable as <<id>>, or <<>> for undefined
RECURSIVE find(_, _, _)
find(items, pos, pt) ==
    IF items = <<>> THEN <<>>
    ELSE IF touches(Head(items), pos, pt.x, pt.y) THEN <<Head(items)>>
    ELSE find(Tail(items), pos, pt)

getObjectAt(ds, pos, pt) ==
    IF ~ds.array THEN <<>> ELSE find(ds.items, pos, pt)

\* a loop of draw that passes over an object without a draw function
RECURSIVE drawLoop_SkipMissing(_, _)
drawLoop_SkipMissing(items, done) ==
    IF items = <<>> THEN [drawn |-> done, threw |-> FALSE]
    ELSE IF hasDraw(Head(items))
    THEN drawLoop_SkipMissing(Tail(items), Append(done, Head(items)))
    ELSE drawLoop_SkipMissing(Tail(items), done)

\* the loop of draw: the objects drawn, in order, up to the first one
\* without a draw function, where it throws
RECURSIVE drawLoop(_, _)
drawLoop(items, done) ==
    IF items = <<>> THEN [drawn |-> done, threw |-> FALSE]
    ELSE IF hasDraw(Head(items)) THEN drawLoop(Tail(items), Append(done, Head(items)))
    ELSE [drawn |-> done, threw |-> TRUE]

draw(ds) ==
    IF ~ds.array THEN [drawn |-> <<>>, threw |-> FALSE] ELSE drawLoop(ds.items, <<>>)

\* a clearRect of the size of the bounding rect: ctx.clearRect(0, 0,
\* rect.width, rect.height)
clearRect_CssSize(t, r, D) ==
    [left |-> t.e, top |-> t.f,
     right |-> RAdd(RMul(t.a, Num(r.width)), t.e),
     bottom |-> RAdd(RMul(t.d, Num(r.height)), t.f)]

\* ctx.clearRect(0, 0, ctx.canvas.width + 50, ctx.canvas.height + 50) under
\* the transform t: the rectangle of device pixels it clears
clearRect(t, r, D) ==
    [left |-> t.e, top |-> t.f,
     right |-> RAdd(RMul(t.a, Num(canvasWidth(r, D) + 50)), t.e),
     bottom |-> RAdd(RMul(t.d, Num(canvasHeight(r, D) + 50)), t.f)]

\* cellSize: 40 of drawGrid's default options
DefaultCellSize ==
    Num(40)

\* the loop with x <= limit as its condition
RECURSIVE gridLoop_Inclusive(_, _, _, _)
gridLoop_Inclusive(x, limit, cellSize, done) ==
    IF RLe(x, limit)
    THEN gridLoop_Inclusive(RAdd(x, cellSize), limit, cellSize, Append(done, x))
    ELSE done

\* for (let x = 0; x < limit; x += cellSize) drawLine(...): where the lines
\* are drawn, in order
RECURSIVE gridLoop(_, _, _, _)
gridLoop(x, limit, cellSize, done) ==
    IF RLt(x, limit)
    THEN gridLoop(RAdd(x, cellSize), limit, cellSize, Append(done, x))
    ELSE done

\* drawGrid: the x of the vertical lines and the y of the horizontal lines
drawGrid(options, r, D) ==
    LET scaledWidth == RMul(Num(r.width), D)
        scaledHeight == RMul(Num(r.height), D)
        cellSize == IF options.cellSize = <<>> THEN DefaultCellSize
                    ELSE options.cellSize[1]
    IN  [vertical |-> gridLoop(Zero, scaledWidth, cellSize, <<>>),
         horizontal |-> gridLoop(Zero, scaledHeight, cellSize, <<>>)]

(***************************************************************************)
(* State.                                                                  *)
(***************************************************************************)
VARIABLES
    gridOptions,        \* the gridOptions prop: <<>> or <<options>>
    DEFAULT_SCALING,    \* the module constant, fixed when the module loads
    maxZoom,            \* the maxZoom prop of the first render: <<>> or <<number>>
    transform,          \* ctx.getTransform()
    draggingObject,     \* canvas.draggingObject: <<>> (unset / null) or <<id>>
    dragStart,          \* canvas.dragStart: <<>> (unset / null) or <<point>>
    drawables,          \* the drawables prop of the latest render
    mountDrawables,     \* the drawables the listeners close over (first render)
    objPos,             \* where each of the host's objects is
    nGestures,          \* wheel zooms, drag / pan moves and appends so far
    lastDown,           \* history: the branch the last primary mousedown since
                        \* the last mouseup took, <<>>, <<"pan">> or <<"drag", id>>
    fx                  \* what the last handler did (see Effect)

vars ==
    <<gridOptions, DEFAULT_SCALING, maxZoom, transform, draggingObject, dragStart,
      drawables, mountDrawables, objPos, nGestures, lastDown, fx>>

Rect ==
    [width |-> RectWidth, height |-> RectHeight]

\* what one handler run did besides changing the state: the move call it made
\* (<<>> or <<id, point>>), the render pass it ran (<<>> or <<pass>>) and the
\* transform it handed to enforceBounds (<<>> or <<transform>>)
Effect(moved, render, enforced) ==
    [moved |-> moved, render |-> render, enforced |-> enforced]

NoEffect ==
    Effect(<<>>, <<>>, <<>>)

\* one render pass over a drawables value: the grid drawn (<<>> or <<lines>>),
\* then the drawables
Pass(ds) ==
    <<[list |-> ds, drawn |-> draw(ds).drawn, threw |-> draw(ds).threw,
       grid |-> IF gridOptions # <<>> /\ gridOptions[1].draw
                THEN <<drawGrid(gridOptions[1], Rect, DEFAULT_SCALING)>>
                ELSE <<>>]>>

\* the state the mount effect leaves: scaleCanvas, the listeners, enforceBounds,
\* draw; then the drawables effect draws once more
Mounted(dpr, mz, ds) ==
    /\ gridOptions = HostGridOptions
    /\ DEFAULT_SCALING = DefaultScaling(dpr)
    /\ maxZoom = mz
    /\ transform = enforceBounds(scaleCanvas(DefaultScaling(dpr)), Rect, DefaultScaling(dpr))
    /\ draggingObject = <<>>
    /\ dragStart = <<>>
    /\ drawables = ds
    /\ mountDrawables = ds
    /\ objPos = InitialObjPos
    /\ nGestures = 0
    /\ lastDown = <<>>
    /\ fx = Effect(<<>>, Pass(ds), <<scaleCanvas(DefaultScaling(dpr))>>)

Init ==
    \E dpr \in DevicePixelRatios, mz \in MaxZoomProps, ds \in InitialDrawables :
        Mounted(dpr, mz, ds)

(***************************************************************************)
(* The listeners.                                                          *)
(***************************************************************************)
\* canvas 'click'
Click(x, y) ==
    /\ fx' = Effect(<<>>, Pass(mountDrawables), <<>>)
    /\ UNCHANGED <<gridOptions, DEFAULT_SCALING, maxZoom, transform, draggingObject, dragStart,
                   drawables, mountDrawables, objPos, nGestures, lastDown>>

\* the zoom without the two translations: ctx.scale(zoom, zoom) alone
scaleAbout_Origin(t, pt, zoom) ==
    ctxScale(t, zoom, zoom)

\* ctx.translate(pt.x, pt.y); ctx.scale(zoom, zoom); ctx.translate(-pt.x, -pt.y)
scaleAbout(t, pt, zoom) ==
    LET t1 == ctxTranslate(t, pt.x, pt.y)
        t2 == ctxScale(t1, zoom, zoom)
    IN  ctxTranslate(t2, RNeg(pt.x), RNeg(pt.y))

\* a zoom about the event's offsets instead of the mapped point
Zoomed_RawOffset(t, D, x, y, deltaY) ==
    LET zoom == IF deltaY < 0 THEN ZoomIn ELSE ZoomOut
    IN  scaleAbout(t, Point(Num(x), Num(y)), zoom)

\* the transform the mousewheel listener hands to enforceBounds
Zoomed(t, D, x, y, deltaY) ==
    LET zoom == IF deltaY < 0 THEN ZoomIn ELSE ZoomOut
        pt == getTransformedPoint(t, D, x, y)
    IN  scaleAbout(t, pt, zoom)

\* the early return taken whatever the direction of the wheel
WheelIgnored_AnyDirection(t, mz, deltaY) ==
    RGt(t.a, maxScaleValue(mz))

\* the early return with the default 5 in place of maxScaleValue
WheelIgnored_DefaultCap(t, mz, deltaY) ==
    deltaY < 0 /\ RGt(t.a, DefaultMaxZoom)

\* the early return of the mousewheel listener
WheelIgnored(t, mz, deltaY) ==
    deltaY < 0 /\ RGt(t.a, maxScaleValue(mz))

\* canvas 'mousewheel'
Wheel(x, y, deltaY) ==
    IF WheelIgnored(transform, maxZoom, deltaY)
    THEN /\ fx' = NoEffect
         /\ UNCHANGED <<gridOptions, DEFAULT_SCALING, maxZoom, transform, draggingObject, dragStart,
                        drawables, mountDrawables, objPos, nGestures, lastDown>>
    ELSE /\ nGestures < MaxGestures
         /\ nGestures' = nGestures + 1
         /\ transform' = enforceBounds(Zoomed(transform, DEFAULT_SCALING, x, y, deltaY),
                                       Rect, DEFAULT_SCALING)
         /\ fx' = Effect(<<>>, Pass(mountDrawables),
                         <<Zoomed(transform, DEFAULT_SCALING, x, y, deltaY)>>)
         /\ UNCHANGED <<gridOptions, DEFAULT_SCALING, maxZoom, draggingObject, dragStart,
                        drawables, mountDrawables, objPos, lastDown>>

\* the object the mousedown listener starts dragging: <<id>>, or <<>> to pan
DragTarget(ds, pos, pt) ==
    LET obj == getObjectAt(ds, pos, pt)
    IN  IF obj # <<>> /\ hasMove(obj[1]) THEN obj ELSE <<>>

\* a mousedown listener without the check of e.button
MouseDown_AnyButton(x, y, button) ==
    LET pt == getTransformedPoint(transform, DEFAULT_SCALING, x, y)
        target == DragTarget(mountDrawables, objPos, pt)
    IN  /\ IF target # <<>>
           THEN /\ draggingObject' = target
                /\ lastDown' = <<"drag", target[1]>>
                /\ UNCHANGED dragStart
           ELSE /\ dragStart' = <<pt>>
                /\ lastDown' = <<"pan">>
                /\ UNCHANGED draggingObject
        /\ fx' = NoEffect
        /\ UNCHANGED <<gridOptions, DEFAULT_SCALING, maxZoom, transform, drawables,
                       mountDrawables, objPos, nGestures>>

\* canvas 'mousedown'
MouseDown(x, y, button) ==
    LET pt == getTransformedPoint(transform, DEFAULT_SCALING, x, y)
        target == DragTarget(mountDrawables, objPos, pt)
    IN  /\ IF button # 0
           THEN UNCHANGED <<draggingObject, dragStart, lastDown>>
           ELSE IF target # <<>>
           THEN /\ draggingObject' = target
                /\ lastDown' = <<"drag", target[1]>>
                /\ UNCHANGED dragStart
           ELSE /\ dragStart' = <<pt>>
                /\ lastDown' = <<"pan">>
                /\ UNCHANGED draggingObject
        /\ fx' = NoEffect
        /\ UNCHANGED <<gridOptions, DEFAULT_SCALING, maxZoom, transform, drawables,
                       mountDrawables, objPos, nGestures>>

\* a pan that adds the delta to the translation without the scale
Panned_Unscaled(t, pt, start) ==
    [t EXCEPT !.e = RAdd(t.e, RSub(pt.x, start.x)),
              !.f = RAdd(t.f, RSub(pt.y, start.y))]

\* the transform the pan branch of the mousemove listener hands to enforceBounds
Panned(t, pt, start) ==
    ctxTranslate(t, RSub(pt.x, start.x), RSub(pt.y, start.y))

\* canvas 'mousemove'
MouseMove(x, y) ==
    LET pt == getTransformedPoint(transform, DEFAULT_SCALING, x, y)
    IN  /\ IF draggingObject # <<>>
           THEN /\ nGestures < MaxGestures
                /\ nGestures' = nGestures + 1
                /\ objPos' = [objPos EXCEPT ![draggingObject[1]] = pt]
                /\ fx' = Effect(<<draggingObject[1], pt>>, Pass(mountDrawables), <<>>)
                /\ UNCHANGED transform
           ELSE IF dragStart # <<>>
           THEN /\ nGestures < MaxGestures
                /\ nGestures' = nGestures + 1
                /\ transform' = enforceBounds(Panned(transform, pt, dragStart[1]),
                                              Rect, DEFAULT_SCALING)
                /\ fx' = Effect(<<>>, Pass(mountDrawables),
                                <<Panned(transform, pt, dragStart[1])>>)
                /\ UNCHANGED objPos
           ELSE /\ fx' = NoEffect
                /\ UNCHANGED <<transform, objPos, nGestures>>
        /\ UNCHANGED <<gridOptions, DEFAULT_SCALING, maxZoom, draggingObject, dragStart,
                       drawables, mountDrawables, lastDown>>

\* window 'mouseup'
MouseUp ==
    /\ IF draggingObject # <<>>
       THEN /\ draggingObject' = <<>>
            /\ UNCHANGED dragStart
       ELSE IF dragStart # <<>>
       THEN /\ dragStart' = <<>>
            /\ UNCHANGED draggingObject
       ELSE UNCHANGED <<draggingObject, dragStart>>
    /\ lastDown' = <<>>
    /\ fx' = NoEffect
    /\ UNCHANGED <<gridOptions, DEFAULT_SCALING, maxZoom, transform, drawables, mountDrawables,
                   objPos, nGestures>>

\* the host's onContextMenu: setDrawables(oldArray => [...oldArray, circle])
onContextMenu(ds) ==
    Array(Append(ds.items, Added))

\* canvas 'contextmenu': the hit-test, the host's callback, and the render
\* pass of the drawables effect that the host's new array triggers; a host
\* that keeps no drawables array changes nothing
ContextMenu(x, y) ==
    /\ IF drawables.array
       THEN /\ nGestures < MaxGestures
            /\ nGestures' = nGestures + 1
            /\ drawables' = onContextMenu(drawables)
            /\ fx' = Effect(<<>>, Pass(drawables'), <<>>)
       ELSE /\ fx' = NoEffect
            /\ UNCHANGED <<drawables, nGestures>>
    /\ UNCHANGED <<gridOptions, DEFAULT_SCALING, maxZoom, transform, draggingObject, dragStart,
                   mountDrawables, objPos, lastDown>>

Next ==
    \E p \in OffsetPoints :
        \/ Click(p[1], p[2])
        \/ \E deltaY \in DeltaYs : Wheel(p[1], p[2], deltaY)
        \/ \E button \in Buttons : MouseDown(p[1], p[2], button)
        \/ MouseMove(p[1], p[2])
        \/ MouseUp
        \/ ContextMenu(p[1], p[2])

Spec ==
    Init /\ [][Next]_vars

(***************************************************************************)
(* The fully zoomed-out canvas.  From the mounted canvas, wheel events     *)
(* with deltaY > 0 at offset (0, 0) keep the translation at (0, 0) and     *)
(* multiply the scale by 49/50 each, until enforceBounds sets the scale to *)
(* 1 (after 35 events for DEFAULT_SCALING = 2, 55 for 3).  The state they  *)
(* lead to is the one below; runs that start there reach what the bound on *)
(* gestures keeps out of reach of runs that start at the mount.            *)
(***************************************************************************)
ZoomedOut(dpr, mz, ds) ==
    /\ gridOptions = HostGridOptions
    /\ DEFAULT_SCALING = DefaultScaling(dpr)
    /\ maxZoom = mz
    /\ transform = enforceBounds(Identity, Rect, DefaultScaling(dpr))
    /\ draggingObject = <<>>
    /\ dragStart = <<>>
    /\ drawables = ds
    /\ mountDrawables = ds
    /\ objPos = InitialObjPos
    /\ nGestures = 0
    /\ lastDown = <<>>
    /\ fx = Effect(<<>>, Pass(ds), <<>>)

InitZoomedOut ==
    \E dpr \in DevicePixelRatios, mz \in MaxZoomProps, ds \in InitialDrawables :
        ZoomedOut(dpr, mz, ds)

SpecZoomedOut ==
    (Init \/ InitZoomedOut) /\ [][Next]_vars

(***************************************************************************)
(* The transform functions on their own: getTransformedPoint, the          *)
(* translate-scale-translate of the mousewheel listener and enforceBounds, *)
(* applied to the transforms a handler can hold between two of its         *)
(* statements (uniform scale, no skew; scale and translation also outside  *)
(* the bounds, as they are right before enforceBounds runs).               *)
(***************************************************************************)
SampleScales ==
    {<<1, 2>>, <<49, 50>>, One, <<3, 2>>, Num(3)}

SampleTranslations ==
    {Num(-7), <<-1, 2>>, Zero, Num(1)}

SampleTransforms ==
    {[a |-> s, b |-> Zero, c |-> Zero, d |-> s, e |-> e, f |-> f] :
        s \in SampleScales, e \in SampleTranslations, f \in SampleTranslations}

\* the zoom factors of the mousewheel listener, and two coarser ones
ZoomFactors ==
    {ZoomIn, ZoomOut, Num(2)}

InitMath ==
    \E dpr \in DevicePixelRatios, t \in SampleTransforms :
        /\ gridOptions = <<>>
        /\ DEFAULT_SCALING = DefaultScaling(dpr)
        /\ maxZoom = <<>>
        /\ transform = t
        /\ draggingObject = <<>>
        /\ dragStart = <<>>
        /\ drawables = NoArray
        /\ mountDrawables = NoArray
        /\ objPos = InitialObjPos
        /\ nGestures = 0
        /\ lastDown = <<>>
        /\ fx = NoEffect
    
\* enforceBounds(canvas, ctx)
EnforceStep ==
    /\ nGestures < MaxGestures
    /\ nGestures' = nGestures + 1
    /\ transform' = enforceBounds(transform, Rect, DEFAULT_SCALING)
    /\ fx' = Effect(<<>>, <<>>, <<transform>>)
    /\ UNCHANGED <<gridOptions, DEFAULT_SCALING, maxZoom, draggingObject, dragStart, drawables,
                   mountDrawables, objPos, lastDown>>

\* pt = getTransformedPoint(ctx, x, y), then the translate-scale-translate
\* about pt
PivotStep(x, y, zoom) ==
    /\ nGestures < MaxGestures
    /\ nGestures' = nGestures + 1
    /\ transform' = scaleAbout(transform,
                               getTransformedPoint(transform, DEFAULT_SCALING, x, y), zoom)
    /\ fx' = NoEffect
    /\ UNCHANGED <<gridOptions, DEFAULT_SCALING, maxZoom, draggingObject, dragStart, drawables,
                   mountDrawables, objPos, lastDown>>

NextMath ==
    \/ EnforceStep
    \/ \E p \in OffsetPoints, zoom \in ZoomFactors : PivotStep(p[1], p[2], zoom)

SpecMath ==
    InitMath /\ [][NextMath]_vars

(***************************************************************************)
(* The render pass on its own: draw applied to drawables lists (objects    *)
(* with and without a draw function, in every order) and to every          *)
(* gridOptions prop, on the freshly scaled canvas.                         *)
(***************************************************************************)
DrawLists ==
    UNION {[1..n -> {Circle, Node, Plain}] : n \in 0..MaxDrawables}

InitDraw ==
    \E dpr \in DevicePixelRatios, go \in GridOptionsProps,
       ds \in {NoArray} \cup {Array(items) : items \in DrawLists} :
        /\ gridOptions = go
        /\ DEFAULT_SCALING = DefaultScaling(dpr)
        /\ maxZoom = <<>>
        /\ transform = enforceBounds(scaleCanvas(DefaultScaling(dpr)), Rect,
                                     DefaultScaling(dpr))
        /\ draggingObject = <<>>
        /\ dragStart = <<>>
        /\ drawables = ds
        /\ mountDrawables = ds
        /\ objPos = InitialObjPos
        /\ nGestures = 0
        /\ lastDown = <<>>
        /\ fx = NoEffect

\* draw(ctx)
DrawStep ==
    /\ fx' = Effect(<<>>, Pass(drawables), <<>>)
    /\ UNCHANGED <<gridOptions, DEFAULT_SCALING, maxZoom, transform, draggingObject,
                   dragStart, drawables, mountDrawables, objPos, nGestures, lastDown>>

NextDraw ==
    DrawStep

SpecDraw ==
    InitDraw /\ [][NextDraw]_vars

(***************************************************************************)
(* The hit test on its own: mousedown and mouseup on drawables lists in    *)
(* several orders, with the node where the host first puts it and where a  *)
(* drag to the bottom-right corner leaves it, on top of the label.         *)
(***************************************************************************)
HitLists ==
    {NoArray, Array(<<Label, Node>>), Array(<<Node, Label>>),
     Array(<<Circle, Label, Node>>), Array(<<Plain, Node, Label>>)}

HitObjPos ==
    {InitialObjPos,
     [InitialObjPos EXCEPT ![Node] = Point(Num(RectWidth), Num(RectHeight))]}

InitHit ==
    \E dpr \in DevicePixelRatios, ds \in HitLists, pos \in HitObjPos,
       zoomedOut \in BOOLEAN :
        /\ gridOptions = HostGridOptions
        /\ DEFAULT_SCALING = DefaultScaling(dpr)
        /\ maxZoom = <<>>
        /\ transform = enforceBounds(IF zoomedOut THEN Identity
                                     ELSE scaleCanvas(DefaultScaling(dpr)),
                                     Rect, DefaultScaling(dpr))
        /\ draggingObject = <<>>
        /\ dragStart = <<>>
        /\ drawables = ds
        /\ mountDrawables = ds
        /\ objPos = pos
        /\ nGestures = 0
        /\ lastDown = <<>>
        /\ fx = NoEffect

NextHit ==
    \/ \E p \in OffsetPoints, button \in Buttons : MouseDown(p[1], p[2], button)
    \/ MouseUp

SpecHit ==
    InitHit /\ [][NextHit]_vars

(***************************************************************************)
(* The interaction state.                                                  *)
(***************************************************************************)
Idle ==
    draggingObject = <<>> /\ dragStart = <<>>

\* C1: in every reachable state the remembered dragged drawable
\* (canvas.draggingObject) and the pan anchor (canvas.dragStart) are not both
\* set.
C1_MutuallyExclusive ==
    ~(draggingObject # <<>> /\ dragStart # <<>>)

\* C2: the mouseup handler leaves both the remembered dragged drawable and the
\* pan anchor cleared, and a mousemove that follows it (no primary mousedown
\* in between) neither changes the transform nor calls a drawable's move.
C2_PointerUpLeavesIdle ==
    [][/\ MouseUp => Idle'
       /\ \A p \in OffsetPoints :
            (lastDown = <<>> /\ MouseMove(p[1], p[2]))
                => (transform' = transform /\ fx'.moved = <<>>)]_vars

\* C3: between a primary mousedown and the next mouseup, every mousemove
\* calls move(mapped point) on the drawable the mousedown hit and leaves the
\* transform alone if that drawable exposes move, and otherwise pans the
\* transform by (mapped point - the mousedown's anchor) and calls no
\* drawable's move.
C3_DragVsPanDispatch ==
    [][\A p \in OffsetPoints :
        LET pt == getTransformedPoint(transform, DEFAULT_SCALING, p[1], p[2])
        IN  (lastDown # <<>> /\ MouseMove(p[1], p[2])) =>
                IF lastDown[1] = "drag"
                THEN fx'.moved = <<lastDown[2], pt>> /\ transform' = transform
                ELSE /\ fx'.moved = <<>>
                     /\ dragStart # <<>>
                     /\ fx'.enforced = <<Panned(transform, pt, dragStart[1])>>]_vars

\* C6: the scale is never smaller than the scale in effect right after
\* initialization (scaleCanvas followed by enforceBounds).
C6_NeverBelowInitialScale ==
    LET initial == enforceBounds(scaleCanvas(DEFAULT_SCALING), Rect, DEFAULT_SCALING)
    IN  RLe(initial.a, transform.a) /\ RLe(initial.d, transform.d)

(***************************************************************************)
(* The transform and its bounds.                                           *)
(***************************************************************************)
\* C4: in every reachable state (after mount and after every wheel or
\* mousemove handler) scaleX >= 1, scaleY >= 1,
\* maxHorizontalTranslation <= translateX <= 0 and
\* maxVerticalTranslation <= translateY <= 0, the two maxima being
\* -(rect.width * scaleX - rect.width) * DEFAULT_SCALING and its vertical twin.
C4_TransformWithinBounds ==
    LET w == Num(Rect.width)
        h == Num(Rect.height)
        maxH == RMul(RNeg(RSub(RMul(w, transform.a), w)), DEFAULT_SCALING)
        maxV == RMul(RNeg(RSub(RMul(h, transform.d), h)), DEFAULT_SCALING)
    IN  /\ RLe(One, transform.a) /\ RLe(One, transform.d)
        /\ RLe(maxH, transform.e) /\ RLe(transform.e, Zero)
        /\ RLe(maxV, transform.f) /\ RLe(transform.f, Zero)

\* a gesture whose transform enforceBounds had to pull back to translateX = 0
C4_Witness ==
    /\ nGestures > 0
    /\ fx.enforced # <<>>
    /\ RGt(fx.enforced[1].e, Zero)
    /\ transform.e = Zero

\* the corners of the canvas, with the offsets of the events
CanvasPoints ==
    OffsetPoints \cup {<<0, 0>>, <<RectWidth, 0>>, <<0, RectHeight>>,
                       <<RectWidth, RectHeight>>}

\* C5: every point of the canvas maps, by getTransformedPoint under the
\* current transform, into [0, scaledWidth] x [0, scaledHeight], with
\* scaledWidth = rect.width * scaleX and scaledHeight = rect.height * scaleY.
C5_VisibleRegionInsideContent ==
    \A p \in CanvasPoints :
        LET pt == getTransformedPoint(transform, DEFAULT_SCALING, p[1], p[2])
        IN  /\ RLe(Zero, pt.x) /\ RLe(pt.x, RMul(Num(Rect.width), transform.a))
            /\ RLe(Zero, pt.y) /\ RLe(pt.y, RMul(Num(Rect.height), transform.d))

\* the maxZoom prop as a number, 5 when it is absent
MaxZoomOrDefault ==
    IF maxZoom = <<>> THEN Num(5) ELSE maxZoom[1]

\* C7 as claimed: with the scale above maxZoom (5 when maxZoom is absent), a
\* wheel event with deltaY < 0 leaves the transform and the interaction state
\* unchanged and renders nothing, and a wheel event with deltaY > 0 strictly
\* reduces the scale.
C7_SoftCapAsClaimed ==
    [][\A p \in OffsetPoints, deltaY \in DeltaYs :
        (RGt(transform.a, MaxZoomOrDefault) /\ Wheel(p[1], p[2], deltaY)) =>
            IF deltaY < 0
            THEN /\ transform' = transform
                 /\ draggingObject' = draggingObject /\ dragStart' = dragStart
                 /\ fx'.render = <<>>
            ELSE RLt(transform'.a, transform.a)]_vars

\* the maxZoom prop as a number, 5 when it is absent or 0
Cap ==
    IF maxZoom = <<>> \/ maxZoom = <<Zero>> THEN Num(5) ELSE maxZoom[1]

\* C7, amended: with the scale above maxZoom (5 when maxZoom is absent or 0),
\* a wheel event with deltaY < 0 leaves the transform and the interaction
\* state unchanged and renders nothing, and a wheel event with deltaY > 0
\* strictly reduces the scale, except at scale 1 (the minimum, above maxZoom
\* only when maxZoom < 1), which it leaves at 1.
C7_SoftCap ==
    [][\A p \in OffsetPoints, deltaY \in DeltaYs :
        (RGt(transform.a, Cap) /\ Wheel(p[1], p[2], deltaY)) =>
            IF deltaY < 0
            THEN /\ transform' = transform
                 /\ draggingObject' = draggingObject /\ dragStart' = dragStart
                 /\ fx'.render = <<>>
            ELSE \/ RLt(transform'.a, transform.a)
                 \/ transform.a = One /\ transform'.a = One]_vars

\* the canvas mounted above its maxZoom and zoomed out once
C7_Witness ==
    /\ RGt(DEFAULT_SCALING, Cap)
    /\ fx.enforced # <<>>
    /\ fx.enforced[1].a = RMul(DEFAULT_SCALING, ZoomOut)
    /\ transform.a = RMul(DEFAULT_SCALING, ZoomOut)

\* C8: in every reachable state the transform is a uniform scale without
\* skew: a = d and b = c = 0.
C8_UniformScaleNoSkew ==
    /\ transform.a = transform.d
    /\ transform.b = Zero
    /\ transform.c = Zero

\* a zoom-out that enforceBounds had to pull back to scale 1
C8_Witness ==
    /\ nGestures > 0
    /\ fx.enforced # <<>>
    /\ RLt(fx.enforced[1].a, One)
    /\ transform.a = One

\* C9: with L = getTransformedPoint(P), after translate(L), scale(f, f),
\* translate(-L) the same device point P maps to L again.
C9_ZoomPivot ==
    [][\A p \in OffsetPoints, zoom \in ZoomFactors :
        PivotStep(p[1], p[2], zoom) =>
            getTransformedPoint(transform', DEFAULT_SCALING, p[1], p[2])
                = getTransformedPoint(transform, DEFAULT_SCALING, p[1], p[2])]_vars

\* a transform of scale 3 zoomed by 1.02 about a mapped point
C9_Witness ==
    /\ nGestures = 1
    /\ fx.enforced = <<>>
    /\ transform.a = RMul(Num(3), ZoomIn)

\* C10: enforceBounds applied to the result of enforceBounds changes nothing.
C10_BoundsIdempotent ==
    LET once == enforceBounds(transform, Rect, DEFAULT_SCALING)
    IN  enforceBounds(once, Rect, DEFAULT_SCALING) = once

\* enforceBounds applied to a transform of scale below 1 and translation
\* above 0
C10_Witness ==
    /\ fx.enforced # <<>>
    /\ RLt(fx.enforced[1].a, One)
    /\ RGt(fx.enforced[1].e, Zero)
    /\ transform = enforceBounds(fx.enforced[1], Rect, DEFAULT_SCALING)

(***************************************************************************)
(* The mapping of pointer offsets and the hit test.                        *)
(***************************************************************************)
\* C11: for scale s and translation (e, f), getTransformedPoint(x, y) is
\* ((D * x - e) / s, (D * y - f) / s) with D = DEFAULT_SCALING; for the
\* identity transform that is (x * D, y * D), and for the transform right
\* after mount (scale D, no translation) it is (x, y) itself.
C11_InverseOfViewport ==
    \A p \in CanvasPoints :
        LET pt == getTransformedPoint(transform, DEFAULT_SCALING, p[1], p[2])
            s == transform.a
            Dx == RMul(DEFAULT_SCALING, Num(p[1]))
            Dy == RMul(DEFAULT_SCALING, Num(p[2]))
        IN  /\ pt = Point(RDiv(RSub(Dx, transform.e), s), RDiv(RSub(Dy, transform.f), s))
            /\ transform = Identity
                    => pt = Point(RMul(Num(p[1]), DEFAULT_SCALING),
                                  RMul(Num(p[2]), DEFAULT_SCALING))
            /\ transform = scaleCanvas(DEFAULT_SCALING)
                    => pt = Point(Num(p[1]), Num(p[2]))

\* a canvas both zoomed and panned
C11_Witness ==
    /\ transform.a # DEFAULT_SCALING /\ transform.a # One
    /\ transform.e # Zero /\ transform.f # Zero

\* the first drawable of a list, in list order, whose touches is a function
\* and returns true at pt: <<id>>, or <<>> when there is none or no list
FirstTouching(ds, pos, pt) ==
    LET hits == {i \in DOMAIN ds.items : touches(ds.items[i], pos, pt.x, pt.y)}
    IN  IF ~ds.array \/ hits = {} THEN <<>>
        ELSE <<ds.items[CHOOSE i \in hits : \A j \in hits : i <= j]>>

\* C12: getObjectAt(pt) is the first drawable in list order that has a
\* touches function returning true at pt, and none when no drawable does or
\* the drawables are no array; a primary mousedown starts dragging that
\* drawable when it exposes move and otherwise starts panning from pt, also
\* when a later drawable touching pt exposes move.
C12_HitTestPrecedence ==
    [][\A p \in OffsetPoints :
        LET pt == getTransformedPoint(transform, DEFAULT_SCALING, p[1], p[2])
            first == FirstTouching(mountDrawables, objPos, pt)
        IN  /\ getObjectAt(mountDrawables, objPos, pt) = first
            /\ MouseDown(p[1], p[2], 0) =>
                    IF first # <<>> /\ hasMove(first[1])
                    THEN draggingObject' = first /\ dragStart' = dragStart
                    ELSE dragStart' = <<pt>> /\ draggingObject' = draggingObject]_vars

\* a pan started at a point that the label (first, no move) and the node
\* (later, with move) both touch
C12_Witness ==
    /\ mountDrawables.array
    /\ lastDown = <<"pan">>
    /\ dragStart # <<>>
    /\ touches(Label, objPos, dragStart[1].x, dragStart[1].y)
    /\ touches(Node, objPos, dragStart[1].x, dragStart[1].y)

(***************************************************************************)
(* The render pass.                                                        *)
(***************************************************************************)
\* C13: a render pass draws the drawables in list order up to the first one
\* without a draw function, where it throws with no later drawable drawn;
\* drawables that are no array are rendered as the empty list without an
\* error; the pass changes neither the transform nor the interaction state.
C13_RenderPass ==
    [][DrawStep =>
        LET items == drawables.items
            missing == {i \in DOMAIN items : ~hasDraw(items[i])}
            k == IF missing = {} THEN Len(items) + 1
                 ELSE CHOOSE i \in missing : \A j \in missing : i <= j
        IN  /\ fx'.render # <<>>
            /\ fx'.render[1].drawn = SubSeq(items, 1, k - 1)
            /\ fx'.render[1].threw = (k <= Len(items))
            /\ ~drawables.array => (fx'.render[1].drawn = <<>> /\ ~fx'.render[1].threw)
            /\ transform' = transform
            /\ draggingObject' = draggingObject /\ dragStart' = dragStart]_vars

\* a pass that drew something, then threw with a drawable still to come
C13_Witness ==
    /\ fx.render # <<>>
    /\ fx.render[1].threw
    /\ fx.render[1].drawn # <<>>
    /\ Len(drawables.items) > Len(fx.render[1].drawn) + 1

\* Math.ceil
RCeil(p) ==
    -((-p[1]) \div p[2])

\* C14 as claimed: with gridOptions = {draw: true, cellSize: c} a render pass
\* draws ceil(W * D / c) + 1 vertical and ceil(H * D / c) + 1 horizontal
\* grid lines.
C14_GridLinesAsClaimed ==
    (fx.render # <<>> /\ gridOptions # <<>> /\ gridOptions[1].draw
        /\ gridOptions[1].cellSize # <<>>) =>
        LET c == gridOptions[1].cellSize[1]
            grid == fx.render[1].grid
        IN  /\ grid # <<>>
            /\ Len(grid[1].vertical)
                    = RCeil(RDiv(RMul(Num(Rect.width), DEFAULT_SCALING), c)) + 1
            /\ Len(grid[1].horizontal)
                    = RCeil(RDiv(RMul(Num(Rect.height), DEFAULT_SCALING), c)) + 1

\* C14, amended: with gridOptions = {draw: true, cellSize: c}, c > 0, a
\* render pass draws the vertical lines x = 0, c, 2c, ... below W * D and the
\* horizontal lines y = 0, c, 2c, ... below H * D: ceil(W * D / c) vertical
\* and ceil(H * D / c) horizontal lines.
C14_GridLines ==
    (fx.render # <<>> /\ gridOptions # <<>> /\ gridOptions[1].draw
        /\ gridOptions[1].cellSize # <<>>) =>
        LET c == gridOptions[1].cellSize[1]
            grid == fx.render[1].grid
            nv == RCeil(RDiv(RMul(Num(Rect.width), DEFAULT_SCALING), c))
            nh == RCeil(RDiv(RMul(Num(Rect.height), DEFAULT_SCALING), c))
        IN  /\ grid # <<>>
            /\ grid[1].vertical = [i \in 1..nv |-> RMul(Num(i - 1), c)]
            /\ grid[1].horizontal = [i \in 1..nh |-> RMul(Num(i - 1), c)]

\* a pass that drew a grid of several lines with an explicit cellSize
C14_Witness ==
    /\ fx.render # <<>>
    /\ gridOptions # <<>> /\ gridOptions[1].draw /\ gridOptions[1].cellSize # <<>>
    /\ fx.render[1].grid # <<>>
    /\ Len(fx.render[1].grid[1].vertical) > 1

(***************************************************************************)
(* What the listeners leave alone.                                         *)
(***************************************************************************)
\* C15: the remembered dragged drawable and the pan anchor change only in a
\* primary mousedown and in a mouseup: no step that changes them is a
\* non-primary mousedown, a wheel, a click or a contextmenu step, and no step
\* that changes the transform is a non-primary mousedown, a click or a
\* contextmenu step.
C15_InteractionFrame ==
    [][LET sameInteraction == draggingObject' = draggingObject /\ dragStart' = dragStart
           sameTransform == transform' = transform
       IN  /\ ~sameInteraction =>
                \/ MouseUp
                \/ \E p \in OffsetPoints : MouseDown(p[1], p[2], 0)
           /\ ~sameInteraction =>
                \A p \in OffsetPoints :
                    /\ \A button \in Buttons \ {0} : ~MouseDown(p[1], p[2], button)
                    /\ \A deltaY \in DeltaYs : ~Wheel(p[1], p[2], deltaY)
                    /\ ~Click(p[1], p[2])
                    /\ ~ContextMenu(p[1], p[2])
           /\ ~sameTransform =>
                \A p \in OffsetPoints :
                    /\ \A button \in Buttons \ {0} : ~MouseDown(p[1], p[2], button)
                    /\ ~Click(p[1], p[2])
                    /\ ~ContextMenu(p[1], p[2])]_vars

\* a wheel event, the first gesture since the mount, handled while panning
C15_Witness ==
    /\ dragStart # <<>> /\ draggingObject = <<>>
    /\ nGestures = 1
    /\ fx.enforced # <<>>
    /\ fx.enforced[1].a # DEFAULT_SCALING

(***************************************************************************)
(* Zooming and panning, handler by handler.                                *)
(***************************************************************************)
\* C16 as claimed: after every wheel event that the max-zoom check does not
\* ignore, the offset of the event maps to the same canvas point as before
\* the event.
C16_ZoomTowardsPointerAsClaimed ==
    [][\A p \in OffsetPoints, deltaY \in DeltaYs :
        (~WheelIgnored(transform, maxZoom, deltaY) /\ Wheel(p[1], p[2], deltaY)) =>
            getTransformedPoint(transform', DEFAULT_SCALING, p[1], p[2])
                = getTransformedPoint(transform, DEFAULT_SCALING, p[1], p[2])]_vars

\* C16, amended: after every wheel event that the max-zoom check does not
\* ignore and whose zoomed transform enforceBounds leaves as it is, the
\* offset of the event maps to the same canvas point as before the event.
C16_ZoomTowardsPointer ==
    [][\A p \in OffsetPoints, deltaY \in DeltaYs :
        (/\ fx'.enforced = <<transform'>>
         /\ ~WheelIgnored(transform, maxZoom, deltaY)
         /\ Wheel(p[1], p[2], deltaY)) =>
            getTransformedPoint(transform', DEFAULT_SCALING, p[1], p[2])
                = getTransformedPoint(transform, DEFAULT_SCALING, p[1], p[2])]_vars

\* a zoom, the first gesture since the mount, about a point other than the
\* origin, that enforceBounds left as it was
C16_Witness ==
    /\ nGestures = 1
    /\ fx.enforced = <<transform>>
    /\ transform.a # DEFAULT_SCALING
    /\ transform.e # Zero /\ transform.f # Zero

\* C17: every render pass draws the host's current drawables, and the hit
\* test of a primary mousedown searches the host's current drawables, also
\* after the host has replaced the array.
C17_CurrentDrawables ==
    [][/\ fx'.render # <<>> => fx'.render[1].list = drawables'
       /\ \A p \in OffsetPoints :
            LET pt == getTransformedPoint(transform, DEFAULT_SCALING, p[1], p[2])
                target == DragTarget(drawables, objPos, pt)
            IN  MouseDown(p[1], p[2], 0) =>
                    IF target # <<>>
                    THEN draggingObject' = target
                    ELSE dragStart' = <<pt>>]_vars

\* panning: a pan anchor and no dragged drawable
Panning ==
    dragStart # <<>> /\ draggingObject = <<>>

\* v clamped to [lo, hi]
Clamp(v, lo, hi) ==
    IF RGt(v, hi) THEN hi ELSE IF RLt(v, lo) THEN lo ELSE v

\* C18: while panning, a mousemove leaves the pan anchor as it is, and after
\* it the translation is, on each axis, the clamp to [maxTranslation, 0] of
\* D * offset - scale * anchor; on an axis where the clamp does not bind, the
\* offset of the event maps to the anchor.
C18_PanDoesNotDrift ==
    [][\A p \in OffsetPoints :
        (Panning /\ MouseMove(p[1], p[2])) =>
            LET anchor == dragStart[1]
                after == transform'
                rawE == RSub(RMul(DEFAULT_SCALING, Num(p[1])), RMul(after.a, anchor.x))
                rawF == RSub(RMul(DEFAULT_SCALING, Num(p[2])), RMul(after.d, anchor.y))
                maxH == maxHorizontalTranslation(after, Rect, DEFAULT_SCALING)
                maxV == maxVerticalTranslation(after, Rect, DEFAULT_SCALING)
                under == getTransformedPoint(after, DEFAULT_SCALING, p[1], p[2])
            IN  /\ dragStart' = dragStart
                /\ after.e = Clamp(rawE, maxH, Zero)
                /\ after.f = Clamp(rawF, maxV, Zero)
                /\ after.e = rawE => under.x = anchor.x
                /\ after.f = rawF => under.y = anchor.y]_vars

\* a pan, the first gesture since the mount, that moved the canvas and that
\* enforceBounds left as it was
C18_Witness ==
    /\ Panning
    /\ nGestures = 1
    /\ transform.a = DEFAULT_SCALING
    /\ fx.enforced = <<transform>>
    /\ transform.e # Zero /\ transform.f # Zero

\* C19: when maxZoom (5 when absent) is at least DEFAULT_SCALING, the scale
\* never exceeds 1.02 * maxZoom in a state reached from the mount.
C19_SoftCapOvershoot ==
    RLe(DEFAULT_SCALING, MaxZoomOrDefault)
        => RLe(transform.a, RMul(ZoomIn, MaxZoomOrDefault))

\* the scale at 1.02 * maxZoom
C19_Witness ==
    /\ maxZoom # <<>>
    /\ RLe(DEFAULT_SCALING, maxZoom[1])
    /\ transform.a = RMul(ZoomIn, maxZoom[1])

\* C20: in every state in which a render pass has just run, the rectangle
\* cleared by draw, (0, 0) to (canvas.width + 50, canvas.height + 50) mapped
\* through the transform, covers the backing store [0, canvas.width] x
\* [0, canvas.height].
C20_ClearCoversBackingStore ==
    fx.render # <<>> =>
        LET cleared == clearRect(transform, Rect, DEFAULT_SCALING)
        IN  /\ RLe(cleared.left, Zero) /\ RLe(cleared.top, Zero)
            /\ RLe(Num(canvasWidth(Rect, DEFAULT_SCALING)), cleared.right)
            /\ RLe(Num(canvasHeight(Rect, DEFAULT_SCALING)), cleared.bottom)

\* a render pass on a zoomed canvas panned as far as the bounds allow
C20_Witness ==
    /\ fx.render # <<>>
    /\ transform.e # Zero
    /\ transform.e = maxHorizontalTranslation(transform, Rect, DEFAULT_SCALING)
    /\ transform.f = maxVerticalTranslation(transform, Rect, DEFAULT_SCALING)

====
